---- MODULE Spec2Model ----
(***************************************************************************)
(* Model of xpath_generator_agent.py: the Streamlit submit handler, the    *)
(* XPathGeneratorAgent (client construction, prompt composition, the one   *)
(* chat-completion call) and the regex extraction behind "Quick Copy".     *)
(*                                                                         *)
(* Text is a sequence of tokens.  The backtick, the newline, the slash,    *)
(* the space and the tab are tokens of their own, the single characters    *)
(* the code's regex and str.strip() tell apart;                            *)
(* every other token stands for a run of characters holding none of them.  *)
(* A Python value of type Optional[str] is a record [present, text]:       *)
(* None is [present |-> FALSE], the string s is [present |-> TRUE,         *)
(* text |-> s].                                                            *)
(***************************************************************************)
EXTENDS Integers, Sequences, FiniteSets, TLC

VARIABLES
    form,          \* the widgets' current values (api_key and the six fields)
    args,          \* the values the running script read from the widgets
    pc,            \* position of the script: idle, construct, compose, call,
                   \* display, quickcopy, success
    client,        \* the agent's client handle: none, ok, failed
    user_message,  \* the user message generate_xpaths composed (None before)
    outcome,       \* what the backend did with this run's call: none, ok, fail
    response,      \* the value generate_xpaths returned to the handler
    xpaths,        \* re.findall's result
    queue,         \* the part of xpaths[:5] the Quick Copy loop has yet to show
    shown,         \* the bodies of the st.code blocks, in order
    ui,            \* the notices the page shows, in order
    submits,       \* submissions so far
    invocations,   \* generate_xpaths invocations so far
    calls,         \* chat.completions.create calls so far
    run_calls      \* chat.completions.create calls of the current run

vars == <<form, args, pc, client, user_message, outcome, response, xpaths,
          queue, shown, ui, submits, invocations, calls, run_calls>>

\* ------------------------------------------------------------------ bounds

MaxSubmits == 2
MaxSegs == 7

\* ------------------------------------------------------------- text, values

\* the backtick character (a string of the module cannot hold one)
BT == "<backtick>"
NL == "\n"
SL == "/"
SP == " "

None == [present |-> FALSE, text |-> <<>>]
Str(s) == [present |-> TRUE, text |-> s]

\* Python's truth value of an Optional[str]: None and the empty string are false.
TruthyTrimmed(v) == v.present /\ \E k \in 1..Len(v.text) : v.text[k] \notin {" ", "\n", "\t"}
Truthy(v) == v.present /\ Len(v.text) > 0

\* An f-string's rendering of a value: None renders as the text None.
Render(v) == IF v.present THEN v.text ELSE <<"None">>

Preamble == "Please generate XPath expressions for the following:"
LabelHtml == "[HTML Snippet] = "
LabelDescription == "[Element Description] = "
LabelContext == "[Page Context] = "
LabelDynamic == "[Dynamic Attributes Flag] = "
LabelState == "[Element State] = "
LabelRanking == "[Ranking Preferences] = "
ErrPrefix == "Error generating XPaths: "

\* ------------------------------------------------- generate_xpaths: compose

ComposeSwapped(a) ==
    <<Preamble, NL, NL, LabelHtml>> \o Render(a.html_snippet)
      \o (IF Truthy(a.page_context)
            THEN <<NL, LabelContext>> \o Render(a.page_context) ELSE <<>>)
      \o (IF Truthy(a.element_description)
            THEN <<NL, LabelDescription>> \o Render(a.element_description) ELSE <<>>)
      \o (IF Truthy(a.dynamic_attributes)
            THEN <<NL, LabelDynamic>> \o Render(a.dynamic_attributes) ELSE <<>>)
      \o (IF Truthy(a.element_state)
            THEN <<NL, LabelState>> \o Render(a.element_state) ELSE <<>>)
      \o (IF Truthy(a.ranking_preferences)
            THEN <<NL, LabelRanking>> \o Render(a.ranking_preferences) ELSE <<>>)

ComposeUserMessage(a) ==
    <<Preamble, NL, NL, LabelHtml>> \o Render(a.html_snippet)
      \o (IF Truthy(a.element_description)
            THEN <<NL, LabelDescription>> \o Render(a.element_description) ELSE <<>>)
      \o (IF Truthy(a.page_context)
            THEN <<NL, LabelContext>> \o Render(a.page_context) ELSE <<>>)
      \o (IF Truthy(a.dynamic_attributes)
            THEN <<NL, LabelDynamic>> \o Render(a.dynamic_attributes) ELSE <<>>)
      \o (IF Truthy(a.element_state)
            THEN <<NL, LabelState>> \o Render(a.element_state) ELSE <<>>)
      \o (IF Truthy(a.ranking_preferences)
            THEN <<NL, LabelRanking>> \o Render(a.ranking_preferences) ELSE <<>>)

\* ---------------------------------------------- generate_xpaths: the result

\* o is the backend's outcome: kind ok with the completion's content, or
\* kind fail with err, the text of the exception.  The result is what generate_xpaths
\* hands the handler: a returned value, or an exception raised past it.
GenerateReturnRaising(o) ==
    IF o.kind = "ok"
      THEN [raised |-> FALSE, value |-> o.content]
      ELSE [raised |-> TRUE, value |-> None]

GenerateReturn(o) ==
    IF o.kind = "ok"
      THEN [raised |-> FALSE, value |-> o.content]
      ELSE [raised |-> FALSE, value |-> Str(<<ErrPrefix>> \o o.err)]

\* ------------------------------------------------------------ the extractor

IsSpace(c) == c \in {" ", "\n", "\t"}

\* The least index k >= p with text[k] in S, or 0.
NextIdx(text, p, S) ==
    LET I == {k \in p..Len(text) : text[k] \in S}
    IN IF I = {} THEN 0 ELSE CHOOSE m \in I : \A k \in I : m <= k

\* One attempt of  ```[^\n]*\n(//[^`]+)  at position s; the captured group is
\* text[from..to].  [^\n]* is greedy and stops at the first newline; [^`]+ is
\* greedy and stops before the next backtick or at the end of the text.
MatchAt(text, s) ==
    IF s + 2 <= Len(text) /\ text[s] = BT /\ text[s+1] = BT /\ text[s+2] = BT
      THEN LET nl == NextIdx(text, s + 3, {NL})
           IN IF nl # 0 /\ nl + 3 <= Len(text)
                 /\ text[nl+1] = SL /\ text[nl+2] = SL /\ text[nl+3] # BT
                THEN LET bt == NextIdx(text, nl + 3, {BT})
                     IN [ok |-> TRUE, from |-> nl + 1,
                         to |-> IF bt = 0 THEN Len(text) ELSE bt - 1]
                ELSE [ok |-> FALSE, from |-> 0, to |-> 0]
      ELSE [ok |-> FALSE, from |-> 0, to |-> 0]

\* re.findall's scan: leftmost match first, the next attempt after its end.
RECURSIVE Scan(_, _)
Scan(text, p) ==
    IF p > Len(text) THEN <<>>
    ELSE LET m == MatchAt(text, p)
         IN IF m.ok THEN <<m>> \o Scan(text, m.to + 1) ELSE Scan(text, p + 1)

FindAllSpans(text) == Scan(text, 1)

FindAll(text) ==
    LET sp == FindAllSpans(text)
    IN [i \in 1..Len(sp) |-> SubSeq(text, sp[i].from, sp[i].to)]

\* str.strip()
Strip(s) ==
    LET I == {k \in 1..Len(s) : ~IsSpace(s[k])}
    IN IF I = {} THEN <<>>
       ELSE SubSeq(s, CHOOSE m \in I : \A k \in I : m <= k,
                      CHOOSE m \in I : \A k \in I : m >= k)

QuickCopyLimit == 5

RECURSIVE Dedup(_)
Dedup(xs) ==
    IF xs = <<>> THEN <<>>
    ELSE LET init == Dedup(SubSeq(xs, 1, Len(xs) - 1))
             last == xs[Len(xs)]
         IN IF \E k \in 1..Len(init) : Strip(init[k]) = Strip(last)
              THEN init ELSE Append(init, last)

QuickCopySliceAll(xs) == xs
QuickCopySliceDedup(xs) ==
    LET d == Dedup(xs)
    IN SubSeq(d, 1, IF Len(d) < QuickCopyLimit THEN Len(d) ELSE QuickCopyLimit)

\* xpaths[:5]
QuickCopySlice(xs) ==
    SubSeq(xs, 1, IF Len(xs) < QuickCopyLimit THEN Len(xs) ELSE QuickCopyLimit)

\* ------------------------------------------------------- the environment

FieldNames == {"api_key", "html_snippet", "element_description", "page_context",
               "dynamic_attributes", "element_state", "ranking_preferences"}

\* st.text_input and st.text_area return the empty string until typed in.
EmptyForm == [f \in FieldNames |-> Str(<<>>)]

\* What the user types into a widget between two submissions.
Typed(f) ==
    CASE f = "api_key" -> {Str(<<>>), Str(<<"sk-key">>)}
      [] f = "html_snippet" -> {Str(<<>>), Str(<<"<a>">>)}
      [] OTHER -> {Str(<<>>), Str(<<"text">>)}

TypedFields == {"api_key", "html_snippet", "element_description"}

\* The inputs of the prompt composer: an optional field is None (the
\* default of generate_xpaths), empty, whitespace only, or text.
OptionalValues == {None, Str(<<>>), Str(<<SP>>), Str(<<"text">>)}
SnippetValues == {Str(<<"<a>">>), Str(<<"<a>", NL, SP, "<b>">>)}

ComposeForms ==
    {f \in [FieldNames -> OptionalValues \cup SnippetValues \cup {Str(<<"sk-key">>)}] :
        /\ f.api_key = Str(<<"sk-key">>)
        /\ f.html_snippet \in SnippetValues
        /\ \A o \in FieldNames \ {"api_key", "html_snippet"} : f[o] \in OptionalValues}

FilledForm ==
    [EmptyForm EXCEPT !.api_key = Str(<<"sk-key">>), !.html_snippet = Str(<<"<a>">>)]

\* The texts of the exceptions the call raises: str(e) may be empty.
Errors == {<<>>, <<"Incorrect", SP, "API", SP, "key">>}

\* Completions the backend may return.
ReplyProse == <<"No", SP, "locator", SP, "found.", NL>>
ReplyExample == <<BT, BT, BT, "xpath", NL, SL, SL, "div[@id='x']", NL, BT, BT, BT>>
ReplyOutside ==
    <<BT, BT, BT, "python", NL, "x", SP, "=", SP, "1", NL, BT, BT, BT, NL,
      SL, SL, SP, "prose", SP, "after", SP, "the", SP, "block", NL>>
SmallReplies == {ReplyProse, ReplyExample, ReplyOutside}

\* Completions built from fenced blocks: an xpath block, another one whose
\* expression is followed by a blank, and a code block followed by a line
\* of prose that starts with two slashes.
SegA == <<BT, BT, BT, "xpath", NL, SL, SL, "a", NL, BT, BT, BT, NL>>
SegB == <<BT, BT, BT, NL, SL, SL, "b", SP, NL, BT, BT, BT, NL>>
SegC == <<BT, BT, BT, "py", NL, "x", NL, BT, BT, BT, NL, SL, SL, "c", NL>>
Segments == {SegA, SegB}

RECURSIVE Flatten(_)
Flatten(ss) == IF ss = <<>> THEN <<>> ELSE Head(ss) \o Flatten(Tail(ss))

MixedReplies == {SegC \o SegA, SegA \o SegC \o SegC \o SegB}

SegmentReplies ==
    {Flatten(ss) : ss \in UNION {[1..k -> Segments] : k \in 0..MaxSegs}}
      \cup SmallReplies \cup MixedReplies

Outcomes(Replies) ==
    {[kind |-> "ok", content |-> Str(r), err |-> <<>>] : r \in Replies}
      \cup {[kind |-> "ok", content |-> None, err |-> <<>>]}
      \cup {[kind |-> "fail", content |-> None, err |-> e] : e \in Errors}

\* ------------------------------------------------------------------ actions

InitRun ==
    /\ args = EmptyForm
    /\ pc = "idle"
    /\ client = "none"
    /\ user_message = None
    /\ outcome = "none"
    /\ response = None
    /\ xpaths = <<>>
    /\ queue = <<>>
    /\ shown = <<>>
    /\ ui = <<>>
    /\ submits = 0
    /\ invocations = 0
    /\ calls = 0
    /\ run_calls = 0

Init == form = EmptyForm /\ InitRun
InitCompose == form \in ComposeForms /\ InitRun
InitExtract == form = FilledForm /\ InitRun

\* The user types into one widget; a form's widgets do not rerun the script.
EditForm ==
    /\ pc = "idle"
    /\ \E f \in TypedFields : \E v \in Typed(f) :
          /\ form[f] # v
          /\ form' = [form EXCEPT ![f] = v]
    /\ UNCHANGED <<args, pc, client, user_message, outcome, response, xpaths,
                   queue, shown, ui, submits, invocations, calls, run_calls>>

\* The rerun a submission starts clears the page and the script's variables.
Rerun ==
    /\ submits' = submits + 1
    /\ args' = form
    /\ client' = "none"
    /\ user_message' = None
    /\ outcome' = "none"
    /\ response' = None
    /\ xpaths' = <<>>
    /\ queue' = <<>>
    /\ shown' = <<>>
    /\ run_calls' = 0
    /\ UNCHANGED <<form, invocations, calls>>

SubmitNoSnippetCheck ==
    /\ pc = "idle"
    /\ submits < MaxSubmits
    /\ Rerun
    /\ IF ~Truthy(form.api_key)
         THEN ui' = <<"error_key">> /\ pc' = "idle"
         ELSE ui' = <<>> /\ pc' = "construct"

\* if submit_button: the two guards of the handler.
Submit ==
    /\ pc = "idle"
    /\ submits < MaxSubmits
    /\ Rerun
    /\ IF ~Truthy(form.api_key)
         THEN ui' = <<"error_key">> /\ pc' = "idle"
         ELSE IF ~Truthy(form.html_snippet)
                THEN ui' = <<"warning_html">> /\ pc' = "idle"
                ELSE ui' = <<>> /\ pc' = "construct"

ConstructNoStop ==
    /\ pc = "construct"
    /\ \E ok \in BOOLEAN :
          IF ok
            THEN client' = "ok" /\ ui' = ui
            ELSE client' = "failed" /\ ui' = Append(ui, "error_init")
    /\ pc' = "compose"
    /\ UNCHANGED <<form, args, user_message, outcome, response, xpaths, queue,
                   shown, submits, invocations, calls, run_calls>>

\* XPathGeneratorAgent(api_key): openai.OpenAI either returns the handle or
\* raises; on a raise st.error shows the description and st.stop ends the
\* script run.
Construct ==
    /\ pc = "construct"
    /\ \E ok \in BOOLEAN :
          IF ok
            THEN client' = "ok" /\ ui' = ui /\ pc' = "compose"
            ELSE client' = "failed" /\ ui' = Append(ui, "error_init") /\ pc' = "idle"
    /\ UNCHANGED <<form, args, user_message, outcome, response, xpaths, queue,
                   shown, submits, invocations, calls, run_calls>>

\* generate_xpaths up to the call: the user message.
Compose ==
    /\ pc = "compose"
    /\ invocations' = invocations + 1
    /\ user_message' = Str(ComposeUserMessage(args))
    /\ pc' = "call"
    /\ UNCHANGED <<form, args, client, outcome, response, xpaths, queue, shown,
                   ui, submits, calls, run_calls>>

\* The handler's part after generate_xpaths ends: its value is bound to
\* response, or the exception it raised reaches the handler's except.
Receive(r) ==
    IF r.raised
      THEN response' = None /\ ui' = Append(ui, "error_exc") /\ pc' = "idle"
      ELSE response' = r.value /\ ui' = ui /\ pc' = "display"

BackendCallRetry(Replies) ==
    /\ pc = "call"
    /\ calls' = calls + 1
    /\ run_calls' = run_calls + 1
    /\ \E o \in Outcomes(Replies) :
          /\ outcome' = o.kind
          /\ IF o.kind = "fail"
               THEN response' = response /\ ui' = ui /\ pc' = "call"
               ELSE Receive(GenerateReturn(o))
    /\ UNCHANGED <<form, args, client, user_message, xpaths, queue, shown,
                   submits, invocations>>

\* The one chat.completions.create call and generate_xpaths' return.
BackendCall(Replies) ==
    /\ pc = "call"
    /\ calls' = calls + 1
    /\ run_calls' = run_calls + 1
    /\ \E o \in Outcomes(Replies) :
          /\ outcome' = o.kind
          /\ Receive(GenerateReturn(o))
    /\ UNCHANGED <<form, args, client, user_message, xpaths, queue, shown,
                   submits, invocations>>

\* st.markdown(response), re.findall, and the Quick Copy heading.  With a
\* response of None re.findall raises TypeError, which the handler's except
\* shows.
Display ==
    /\ pc = "display"
    /\ IF ~response.present
         THEN /\ ui' = ui \o <<"markdown", "error_exc">>
              /\ xpaths' = <<>>
              /\ queue' = <<>>
              /\ pc' = "idle"
         ELSE LET found == FindAll(response.text)
              IN /\ xpaths' = found
                 /\ IF found # <<>>
                      THEN /\ ui' = ui \o <<"markdown", "subheader">>
                           /\ queue' = QuickCopySlice(found)
                           /\ pc' = "quickcopy"
                      ELSE /\ ui' = Append(ui, "markdown")
                           /\ queue' = <<>>
                           /\ pc' = "success"
    /\ UNCHANGED <<form, args, client, user_message, outcome, response, shown,
                   submits, invocations, calls, run_calls>>

\* One round of the Quick Copy loop: strip, st.code.
QuickCopy ==
    /\ pc = "quickcopy"
    /\ queue # <<>>
    /\ shown' = Append(shown, Strip(Head(queue)))
    /\ queue' = Tail(queue)
    /\ pc' = IF Tail(queue) = <<>> THEN "success" ELSE "quickcopy"
    /\ UNCHANGED <<form, args, client, user_message, outcome, response, xpaths,
                   ui, submits, invocations, calls, run_calls>>

\* st.success
Success ==
    /\ pc = "success"
    /\ ui' = Append(ui, "success")
    /\ pc' = "idle"
    /\ UNCHANGED <<form, args, client, user_message, outcome, response, xpaths,
                   queue, shown, submits, invocations, calls, run_calls>>

Next ==
    \/ EditForm
    \/ Submit
    \/ Construct
    \/ Compose
    \/ BackendCall(SmallReplies)
    \/ Display
    \/ QuickCopy
    \/ Success

NextExtract ==
    \/ Submit
    \/ Construct
    \/ Compose
    \/ BackendCall(SegmentReplies)
    \/ Display
    \/ QuickCopy
    \/ Success

NextCompose ==
    \/ Submit
    \/ Construct
    \/ Compose
    \/ BackendCall({ReplyExample})
    \/ Display
    \/ QuickCopy
    \/ Success

Spec == Init /\ [][Next]_vars
SpecCompose == InitCompose /\ [][NextCompose]_vars
SpecExtract == InitExtract /\ [][NextExtract]_vars

\* --------------------------------------------------------------- properties

OptionalFields == {"element_description", "page_context", "dynamic_attributes",
                   "element_state", "ranking_preferences"}

FieldLabel(f) ==
    CASE f = "html_snippet" -> LabelHtml
      [] f = "element_description" -> LabelDescription
      [] f = "page_context" -> LabelContext
      [] f = "dynamic_attributes" -> LabelDynamic
      [] f = "element_state" -> LabelState
      [] f = "ranking_preferences" -> LabelRanking

FixedOrder ==
    <<LabelHtml, LabelDescription, LabelContext, LabelDynamic, LabelState, LabelRanking>>

Rank(l) == CHOOSE i \in 1..Len(FixedOrder) : FixedOrder[i] = l

\* The labels of the labeled lines of a message, in order: a labeled line is
\* a line of the text that starts with one of the six labels.
RECURSIVE LabelScan(_, _)
LabelScan(msg, k) ==
    IF k > Len(msg) THEN <<>>
    ELSE IF (k = 1 \/ msg[k-1] = NL) /\ \E i \in 1..Len(FixedOrder) : FixedOrder[i] = msg[k]
           THEN <<msg[k]>> \o LabelScan(msg, k + 1)
           ELSE LabelScan(msg, k + 1)

LabelsOf(msg) == LabelScan(msg, 1)

Count(seq, e) == Cardinality({i \in 1..Len(seq) : seq[i] = e})

\* Present and not the empty string.
Populated(v) == v.present /\ v.text # <<>>

\* Absent, empty, or whitespace only.
Blank(v) == ~v.present \/ \A k \in 1..Len(v.text) : IsSpace(v.text[k])

\* The run went through to st.success.
RunDone == pc = "idle" /\ ui # <<>> /\ ui[Len(ui)] = "success"

\* C1: the composed user message has the HTML Snippet line exactly once and
\* first, exactly one labeled line for every populated optional field and
\* none for an unpopulated one, in the fixed order; with only html_snippet
\* populated it has one labeled line, with all six populated it has six.
C1_LabeledLines ==
    user_message.present =>
      LET ls == LabelsOf(user_message.text)
          n == Cardinality({f \in OptionalFields : Populated(args[f])})
      IN /\ ls # <<>>
         /\ ls[1] = LabelHtml
         /\ Count(ls, LabelHtml) = 1
         /\ \A f \in OptionalFields :
               Count(ls, FieldLabel(f)) = IF Populated(args[f]) THEN 1 ELSE 0
         /\ \A i, j \in 1..Len(ls) : i < j => Rank(ls[i]) < Rank(ls[j])
         /\ (n = 0 => Len(ls) = 1)
         /\ (n = 5 => Len(ls) = 6)

C1_Witness ==
    /\ user_message.present
    /\ \A f \in OptionalFields : Populated(args[f])
    /\ LabelsOf(user_message.text) = FixedOrder

\* C2 as stated: an optional field that is absent, empty or whitespace only
\* gets no labeled line in the composed user message.
C2_BlankOmitted ==
    user_message.present =>
      \A f \in OptionalFields :
         Blank(args[f]) => Count(LabelsOf(user_message.text), FieldLabel(f)) = 0

\* C2 amended: an optional field that is absent or empty gets no labeled
\* line; a field that is not empty gets its labeled line also when it holds
\* whitespace only (the code does not trim).
C2_EmptyOmitted ==
    user_message.present =>
      \A f \in OptionalFields :
         /\ (~args[f].present \/ args[f].text = <<>>)
               => Count(LabelsOf(user_message.text), FieldLabel(f)) = 0
         /\ (Blank(args[f]) /\ Populated(args[f]))
               => Count(LabelsOf(user_message.text), FieldLabel(f)) = 1

C2_Witness ==
    /\ user_message.present
    /\ args.element_description = None
    /\ args.page_context = Str(<<>>)
    /\ args.element_state = Str(<<SP>>)
    /\ Count(LabelsOf(user_message.text), LabelState) = 1

\* C3: the expressions shown are at most 5 and are, in order, the trimmed
\* first min(5, n) of the n matches of the response text; while the loop
\* runs they are a prefix of those.
C3_FirstFive ==
    /\ Len(shown) <= 5
    /\ (response.present /\ pc \in {"quickcopy", "success", "idle"}) =>
         LET m == FindAll(response.text)
             n == IF Len(m) < 5 THEN Len(m) ELSE 5
         IN /\ Len(shown) <= n
            /\ \A i \in 1..Len(shown) : shown[i] = Strip(m[i])
            /\ (pc = "success" \/ RunDone) => Len(shown) = n

C3_Witness ==
    /\ RunDone
    /\ response.present
    /\ Len(FindAll(response.text)) = 7
    /\ Len(shown) = 5
    /\ shown[1] # shown[2]

\* The number of complete fence markers (three backticks) of text[k..p-1].
RECURSIVE FencesBefore(_, _, _)
FencesBefore(text, k, p) ==
    IF k + 2 >= p THEN 0
    ELSE IF text[k] = BT /\ text[k+1] = BT /\ text[k+2] = BT
           THEN 1 + FencesBefore(text, k + 3, p)
           ELSE FencesBefore(text, k + 1, p)

\* Position p lies in a fenced code region: after an opening fence that no
\* closing fence has ended.
InsideFence(text, p) == FencesBefore(text, 1, p) % 2 = 1

\* C4 as stated: every expression shown is the trimmed content of a fenced
\* code region that begins with two slashes; text outside the fenced regions
\* is never shown as an expression.
C4_FencedOnly ==
    (response.present /\ pc \in {"quickcopy", "success", "idle"}) =>
      LET sp == FindAllSpans(response.text)
      IN \A i \in 1..Len(shown) :
            /\ i <= Len(sp)
            /\ shown[i] = Strip(SubSeq(response.text, sp[i].from, sp[i].to))
            /\ InsideFence(response.text, sp[i].from)

\* C5 as stated: no two of the expressions shown are equal.
C5_Deduplicated ==
    \A i, j \in 1..Len(shown) : i # j => shown[i] # shown[j]

\* C5 amended: the list is not deduplicated; an expression is shown once for
\* each of the first five matches it was captured from.
C5_OncePerMatch ==
    (RunDone /\ response.present) =>
      LET m == FindAll(response.text)
          n == IF Len(m) < 5 THEN Len(m) ELSE 5
      IN \A k \in 1..n :
            Count(shown, Strip(m[k]))
              = Cardinality({i \in 1..n : Strip(m[i]) = Strip(m[k])})

C5_Witness ==
    /\ RunDone
    /\ \E i, j \in 1..Len(shown) : i # j /\ shown[i] = shown[j]

\* C6: a failed backend call comes back to the handler as a returned,
\* non-empty error text; no exception reaches the handler's except.
C6_FailSoft ==
    outcome = "fail" =>
      /\ response.present
      /\ Len(response.text) > 0
      /\ response.text[1] = ErrPrefix
      /\ pc \in {"display", "success", "idle"}
      /\ \A k \in 1..Len(ui) : ui[k] # "error_exc"

C6_Witness ==
    /\ outcome = "fail"
    /\ pc = "display"
    /\ response = Str(<<ErrPrefix>>)

\* C7 as stated: after a failed client construction the handler still
\* receives a failure result, and no backend call is issued.
C7_Recovered ==
    (client = "failed" /\ pc = "idle") => (response.present /\ run_calls = 0)

\* C7 amended: a failed client construction shows the error notice and stops
\* the script run: generate_xpaths is not invoked, the handler receives no
\* result, and no backend call is issued.
C7_Stopped ==
    client = "failed" =>
      /\ ui = <<"error_init">>
      /\ pc = "idle"
      /\ ~user_message.present
      /\ ~response.present
      /\ run_calls = 0

C7_Witness == client = "failed" /\ submits = 1 /\ invocations = 0 /\ calls = 0

\* C8 as stated: a run whose backend call failed never ends with the success
\* notice and no extracted expressions, the way a run ends whose call
\* succeeded and whose text has no qualifying fenced region.
C8_Distinct ==
    (pc = "idle" /\ outcome = "fail") =>
      ~(ui # <<>> /\ ui[Len(ui)] = "success" /\ shown = <<>>)

\* C9: every invocation of generate_xpaths issues exactly one backend call,
\* also after a failure: at most one call in a run, and as many calls as
\* invocations but for the invocation whose call is pending.
C9_OneCallPerInvocation ==
    /\ run_calls <= 1
    /\ calls = invocations - (IF pc = "call" THEN 1 ELSE 0)
    /\ (pc \in {"display", "quickcopy", "success"} \/ outcome # "none") => run_calls = 1

C9_Witness ==
    /\ pc = "idle"
    /\ outcome = "fail"
    /\ invocations = 2
    /\ calls = 2

\* C10: the client is constructed, the prompt composed and the backend
\* called only in a submission whose credential and html_snippet are both
\* non-empty; any other submission ends at once in the error or the warning.
C10_Guarded ==
    /\ (pc # "idle" \/ client # "none" \/ user_message.present \/ run_calls > 0)
          => (Truthy(args.api_key) /\ Truthy(args.html_snippet))
    /\ (submits > 0 /\ ~(Truthy(args.api_key) /\ Truthy(args.html_snippet)))
          => /\ pc = "idle"
             /\ client = "none"
             /\ ~user_message.present
             /\ run_calls = 0
             /\ ui \in {<<"error_key">>, <<"warning_html">>}

C10_Witness ==
    /\ submits > 0
    /\ Truthy(args.api_key)
    /\ ~Truthy(args.html_snippet)
    /\ ui = <<"warning_html">>
    /\ calls = 0

====
